---- MODULE Spec2Model ----
(***************************************************************************)
(* Verification model of duarteocarmo/graphs.                              *)
(*                                                                         *)
(* Three programs of the repository share one state space:                 *)
(*   prog = "merge" : one call of KnowledgeGraph.update on two graphs      *)
(*   prog = "gen"   : generate_graph over a list of input chunks           *)
(*   prog = "app"   : KnowledgeGraphApp, its chat turns and its button     *)
(* Graph objects live in a heap (a sequence indexed by object reference),  *)
(* so that "a new object is returned" and "an object is changed in place"  *)
(* are different things, as they are in Python.                            *)
(***************************************************************************)
EXTENDS Integers, Sequences, FiniteSets, TLC

\* Longest node list of a graph given to update.
MaxNodes == 2

\* Longest edge list of a graph given to update.
MaxEdges == 1

\* Longest input list of generate_graph.
MaxChunks == 3

\* Longest node list and longest edge list of one reply of the model in
\* generate_graph.
MaxReply == 1

\* Most calls of chat_callback in one run of the application.
MaxTurns == 2

(***************************************************************************)
(* Data model: Node, Edge, KnowledgeGraph                                  *)
(***************************************************************************)
Node(i, nm, ty) == [id |-> i, name |-> nm, node_type |-> ty]

Edge(s, t, d) == [source |-> s, target |-> t, relationship_decription |-> d]

KnowledgeGraph(ns, es) == [nodes |-> ns, edges |-> es]

\* Node.__hash__: the hash of the tuple of the three fields.
NodeHash(n) == <<n.id, n.name, n.node_type>>

\* Edge.__hash__: the hash of the tuple of the three fields.
EdgeHash(e) == <<e.source, e.target, e.relationship_decription>>

\* Equality of two Node objects: the declared fields, compared one by one.
NodeEq(n, m) == n.id = m.id /\ n.name = m.name /\ n.node_type = m.node_type

\* Equality of two Edge objects: the declared fields, compared one by one.
EdgeEq(e, f) ==
    /\ e.source = f.source
    /\ e.target = f.target
    /\ e.relationship_decription = f.relationship_decription

\* The nodes and edges the bounded inputs are drawn from: the two scenarios of
\* the specification (Sam / Samantha share id 1) and an edge whose target
\* (3) is the id of no node.
NodeUniverse ==
    { Node(1, "Sam", "PERSON"), Node(1, "Samantha", "PERSON"), Node(2, "NYC", "PLACE") }

EdgeUniverse == { Edge(1, 2, "lives in"), Edge(1, 3, "works at") }

SeqsUpTo(S, k) == UNION { [1..m -> S] : m \in 0..k }

Graphs == { KnowledgeGraph(ns, es) : ns \in SeqsUpTo(NodeUniverse, MaxNodes),
                                     es \in SeqsUpTo(EdgeUniverse, MaxEdges) }

Range(xs) == { xs[k] : k \in 1..Len(xs) }

\* How often x occurs in the list xs.
Count(x, xs) == Cardinality({ k \in 1..Len(xs) : xs[k] = x })

(***************************************************************************)
(* set(...) and list(...) as KnowledgeGraph.update uses them               *)
(***************************************************************************)
\* set(xs) over Node objects: the elements are inserted one by one, and an
\* element is dropped when the set already holds one with the same hash that
\* compares equal.
\* NodeSet with a fault: hash and equality of a node taken from its id alone.
RECURSIVE NodeSetById(_, _)
NodeSetById(xs, acc) ==
    IF xs = <<>> THEN acc
    ELSE LET x == Head(xs)
             present == \E y \in acc : y.id = x.id
         IN  NodeSetById(Tail(xs), IF present THEN acc ELSE acc \cup {x})

RECURSIVE NodeSet(_, _)
NodeSet(xs, acc) ==
    IF xs = <<>> THEN acc
    ELSE LET x == Head(xs)
             present == \E y \in acc : NodeHash(y) = NodeHash(x) /\ NodeEq(y, x)
         IN  NodeSet(Tail(xs), IF present THEN acc ELSE acc \cup {x})

RECURSIVE EdgeSet(_, _)
EdgeSet(xs, acc) ==
    IF xs = <<>> THEN acc
    ELSE LET x == Head(xs)
             present == \E y \in acc : EdgeHash(y) = EdgeHash(x) /\ EdgeEq(y, x)
         IN  EdgeSet(Tail(xs), IF present THEN acc ELSE acc \cup {x})

\* list(S): the elements of the set, each once, in the iteration order of the
\* hash table, which the program does not control: any order.
ListOf(S) ==
    { f \in [1..Cardinality(S) -> S] : \A j, k \in 1..Cardinality(S) : j # k => f[j] # f[k] }

\* UpdateNodes with a fault: the two lists joined, nothing removed.
UpdateNodesNoDedup(self, other) == { self.nodes \o other.nodes }

\* UpdateNodes with a fault: a node of other is added only when self has no node
\* with its id.
UpdateNodesKeepFirstId(self, other) ==
    LET kept == SelectSeq(other.nodes,
                          LAMBDA n : \A k \in 1..Len(self.nodes) : self.nodes[k].id # n.id)
    IN  ListOf(NodeSet(self.nodes \o kept, {}))

\* UpdateNodes with a fault: the nodes of other alone.
UpdateNodesOtherOnly(self, other) == ListOf(NodeSet(other.nodes, {}))

\* UpdateNodes with a fault: set(a) ^ set(b) in place of the set of a + b.
UpdateNodesSymDiff(self, other) ==
    LET A == NodeSet(self.nodes, {})
        B == NodeSet(other.nodes, {})
    IN  ListOf((A \ B) \cup (B \ A))

\* list(set(self.nodes + other.nodes)): every list the call may return.
UpdateNodes(self, other) == ListOf(NodeSet(self.nodes \o other.nodes, {}))

\* list(set(self.edges + other.edges)): every list the call may return.
UpdateEdges(self, other) == ListOf(EdgeSet(self.edges \o other.edges, {}))

\* KnowledgeGraph.update: every graph the call may return.
update(self, other) ==
    { KnowledgeGraph(ns, es) : ns \in UpdateNodes(self, other), es \in UpdateEdges(self, other) }

\* UpdateHeap with a fault: self is extended in place and returned.
UpdateHeapInPlace(h, s, r) == [heap |-> [h EXCEPT ![s] = r], ref |-> s]

\* The heap after x.update(y) returned r, x being the object s, and the
\* reference returned: r is a new object and no object that existed changes.
UpdateHeap(h, s, r) == [heap |-> Append(h, r), ref |-> Len(h) + 1]

(***************************************************************************)
(* State                                                                   *)
(***************************************************************************)
VARIABLES
    prog,      \* which program runs: "merge", "gen" or "app"
    heap,      \* the KnowledgeGraph objects, by reference
    self,      \* merge: the object update is called on
    other,     \* merge: the argument of update
    ret,       \* merge: the object update returned, 0 before the call
    input,     \* gen: the list of text chunks
    i,         \* gen: the loop index
    cur_state, \* gen: the running graph (a reference)
    new_updates, \* gen: the graph parsed from the last reply (a reference), 0 for None
    gpc,       \* gen: where generate_graph stands
    returned,  \* gen: the nodes and edges the model has returned so far (history)
    apc,       \* app: where the construction of KnowledgeGraphApp stands
    graph,     \* app: self.graph, the current graph (a reference)
    local,     \* app: the local variable graph of create_example_graph (a reference)
    formed,    \* app: the objects whose construction has ended (history)
    log,       \* app: the messages of the chat interface, oldest first
    turns,     \* app: the calls of chat_callback, in the order they were scheduled
    running,   \* app: the turn that runs code between two suspension points, or 0
    rendered   \* app: the graph _update_svg drew last

mergeVars == <<self, other, ret>>

genVars == <<input, i, cur_state, new_updates, gpc, returned>>

appVars == <<apc, graph, local, formed, log, turns, running, rendered>>

vars == <<prog, heap, mergeVars, genVars, appVars>>

NoMerge == self = 0 /\ other = 0 /\ ret = 0

NoGen ==
    /\ input = <<>>
    /\ i = 0
    /\ cur_state = 0
    /\ new_updates = 0
    /\ gpc = "off"
    /\ returned = [nodes |-> {}, edges |-> {}]

NoApp ==
    /\ apc = "off"
    /\ graph = 0
    /\ local = 0
    /\ formed = {}
    /\ log = <<>>
    /\ turns = <<>>
    /\ running = 0
    /\ rendered = KnowledgeGraph(<<>>, <<>>)

(***************************************************************************)
(* prog = "merge": one call self.update(other)                             *)
(***************************************************************************)
\* a.update(b) for two graphs a and b, or g.update(g) for one graph g.
InitMerge ==
    /\ prog = "merge"
    /\ \/ \E a, b \in Graphs : heap = <<a, b>> /\ other = 2
       \/ \E g \in Graphs : heap = <<g>> /\ other = 1
    /\ self = 1
    /\ ret = 0
    /\ NoGen
    /\ NoApp

Update ==
    /\ prog = "merge"
    /\ ret = 0
    /\ \E r \in update(heap[self], heap[other]) :
         LET h == UpdateHeap(heap, self, r)
         IN  heap' = h.heap /\ ret' = h.ref
    /\ UNCHANGED <<prog, self, other, genVars, appVars>>

NextMerge == Update

SpecMerge == InitMerge /\ [][NextMerge]_vars

(***************************************************************************)
(* Claims about KnowledgeGraph.update                                      *)
(***************************************************************************)
Returned == prog = "merge" /\ ret # 0

NodesOf(g) == Range(g.nodes)

EdgesOf(g) == Range(g.edges)

\* C1: the result of a.update(b) holds every node and every edge of a and of b,
\* the edges whose end points are the id of no node included, and holds
\* nothing else.
C1_MergeLosesNothing ==
    Returned =>
        /\ NodesOf(heap[ret]) = NodesOf(heap[self]) \cup NodesOf(heap[other])
        /\ EdgesOf(heap[ret]) = EdgesOf(heap[self]) \cup EdgesOf(heap[other])

\* The merge returned, both operands had nodes of their own, and an edge of the
\* argument points at an id no node of the result has.
C1_Witness ==
    /\ Returned
    /\ NodesOf(heap[self]) \ NodesOf(heap[other]) # {}
    /\ NodesOf(heap[other]) \ NodesOf(heap[self]) # {}
    /\ \E e \in EdgesOf(heap[other]) :
         /\ \A n \in NodesOf(heap[ret]) : n.id # e.target
         /\ e \in EdgesOf(heap[ret])

\* C2: the result of update holds each exact node tuple once at most and each
\* exact edge tuple once at most, whatever repetitions the inputs hold.
C2_MergeNoDuplicates ==
    Returned =>
        /\ \A n \in NodeUniverse : Count(n, heap[ret].nodes) <= 1
        /\ \A e \in EdgeUniverse : Count(e, heap[ret].edges) <= 1

\* The merge returned on an input that itself repeats a node, the other
\* operand holding that node too, and on an edge both operands hold.
C2_Witness ==
    /\ Returned
    /\ \E n \in NodeUniverse :
         Count(n, heap[self].nodes) = 2 /\ Count(n, heap[other].nodes) >= 1
    /\ \E e \in EdgeUniverse :
         Count(e, heap[self].edges) = 1 /\ Count(e, heap[other].edges) = 1

\* C3: g.update(g) has the node set and the edge set of g.
C3_MergeIdempotent ==
    (Returned /\ other = self) =>
        /\ NodesOf(heap[ret]) = NodesOf(heap[self])
        /\ EdgesOf(heap[ret]) = EdgesOf(heap[self])

\* g.update(g) returned for a graph g of two nodes and an edge.
C3_Witness ==
    /\ Returned
    /\ other = self
    /\ Cardinality(NodesOf(heap[self])) = 2
    /\ Cardinality(EdgesOf(heap[self])) = 1

\* C4: a.update(b) and b.update(a) have the same node set and the same edge
\* set: whatever a.update(b) returned, every result of b.update(a) has its sets.
C4_MergeCommutative ==
    Returned =>
        /\ \A ns \in UpdateNodes(heap[other], heap[self]) : Range(ns) = NodesOf(heap[ret])
        /\ \A es \in UpdateEdges(heap[other], heap[self]) : Range(es) = EdgesOf(heap[ret])

\* a.update(b) returned for graphs a and b with different node sets and
\* different edge sets, neither empty.
C4_Witness ==
    /\ Returned
    /\ other # self
    /\ NodesOf(heap[self]) # NodesOf(heap[other])
    /\ EdgesOf(heap[self]) # EdgesOf(heap[other])
    /\ NodesOf(heap[self]) # {} /\ NodesOf(heap[other]) # {}
    /\ EdgesOf(heap[self]) # {} /\ EdgesOf(heap[other]) # {}

\* C5: when a holds a node with id i and b holds a node with the same id and
\* another name or type, the result holds both, as two elements: ids are not
\* unique after a merge.
C5_SameIdBothKept ==
    Returned =>
        \A n \in NodesOf(heap[self]) : \A m \in NodesOf(heap[other]) :
            (n.id = m.id /\ (n.name # m.name \/ n.node_type # m.node_type)) =>
                /\ Count(n, heap[ret].nodes) = 1
                /\ Count(m, heap[ret].nodes) = 1
                /\ Cardinality({ k \in 1..Len(heap[ret].nodes) : heap[ret].nodes[k].id = n.id }) >= 2

\* The node-id collision scenario: a = [N(1, Sam, PERSON)], b = [N(1, Samantha,
\* PERSON)], and the result has two nodes with id 1.
C5_Witness ==
    /\ Returned
    /\ heap[self].nodes = << Node(1, "Sam", "PERSON") >>
    /\ heap[other].nodes = << Node(1, "Samantha", "PERSON") >>
    /\ Len(heap[ret].nodes) = 2

(***************************************************************************)
(* prog = "gen": generate_graph(input)                                     *)
(***************************************************************************)
Chunks == { "chunk" }

\* The graphs one reply of the model may parse into.
Replies == { KnowledgeGraph(ns, es) : ns \in SeqsUpTo(NodeUniverse, MaxReply),
                                      es \in SeqsUpTo(EdgeUniverse, MaxReply) }

\* GenMerge with a fault: the reply replaces the running state.
GenMergeReplace(cur, new) == { new }

\* cur_state.update(new_updates): every graph the call may return.
GenMerge(cur, new) == update(cur, new)

\* cur_state = KnowledgeGraph(); num_iterations = len(input)
InitGen ==
    /\ prog = "gen"
    /\ heap = << KnowledgeGraph(<<>>, <<>>) >>
    /\ NoMerge
    /\ input \in SeqsUpTo(Chunks, MaxChunks)
    /\ i = 0
    /\ cur_state = 1
    /\ new_updates = 0
    /\ gpc = "loop"
    /\ returned = [nodes |-> {}, edges |-> {}]
    /\ NoApp

\* One request to the model for chunk i: the reply parses into a graph, which
\* is a new object. The object new_updates named before is no longer referenced.
GenParse ==
    /\ prog = "gen"
    /\ gpc = "loop"
    /\ i < Len(input)
    /\ \E g \in Replies :
         /\ heap' = << heap[cur_state], g >>
         /\ returned' = [nodes |-> returned.nodes \cup NodesOf(g),
                         edges |-> returned.edges \cup EdgesOf(g)]
    /\ cur_state' = 1
    /\ new_updates' = 2
    /\ gpc' = "update"
    /\ UNCHANGED <<prog, mergeVars, appVars, input, i>>

\* The model refuses: message.parsed is None.
GenParseNone ==
    /\ prog = "gen"
    /\ gpc = "loop"
    /\ i < Len(input)
    /\ heap' = << heap[cur_state] >>
    /\ cur_state' = 1
    /\ new_updates' = 0
    /\ gpc' = "update"
    /\ UNCHANGED <<prog, mergeVars, appVars, input, i, returned>>

\* cur_state = cur_state.update(new_updates). The object cur_state named before
\* is no longer referenced.
GenUpdate ==
    /\ prog = "gen"
    /\ gpc = "update"
    /\ new_updates # 0
    /\ \E r \in GenMerge(heap[cur_state], heap[new_updates]) :
         LET h == UpdateHeap(heap, cur_state, r)
         IN  heap' = << h.heap[new_updates], h.heap[h.ref] >>
    /\ new_updates' = 1
    /\ cur_state' = 2
    /\ gpc' = "draw"
    /\ UNCHANGED <<prog, mergeVars, appVars, input, i, returned>>

\* None.nodes: the call raises and generate_graph ends with the exception.
GenUpdateRaises ==
    /\ prog = "gen"
    /\ gpc = "update"
    /\ new_updates = 0
    /\ gpc' = "raised"
    /\ UNCHANGED <<prog, heap, mergeVars, appVars, input, i, cur_state, new_updates, returned>>

\* cur_state.draw(prefix): the graph is rendered; the loop goes on.
GenDraw ==
    /\ prog = "gen"
    /\ gpc = "draw"
    /\ i' = i + 1
    /\ gpc' = "loop"
    /\ UNCHANGED <<prog, heap, mergeVars, appVars, input, cur_state, new_updates, returned>>

\* return cur_state
GenReturn ==
    /\ prog = "gen"
    /\ gpc = "loop"
    /\ i = Len(input)
    /\ gpc' = "done"
    /\ UNCHANGED <<prog, heap, mergeVars, appVars, input, i, cur_state, new_updates, returned>>

NextGen == GenParse \/ GenParseNone \/ GenUpdate \/ GenUpdateRaises \/ GenDraw \/ GenReturn

SpecGen == InitGen /\ [][NextGen]_vars

(***************************************************************************)
(* Claims about generate_graph                                             *)
(***************************************************************************)
\* The running state is between two iterations (or returned).
GenAtRest == prog = "gen" /\ gpc \in {"loop", "draw", "done"}

\* The running state is empty before the first iteration, and between
\* iterations it holds exactly what the model has returned so far, each
\* element once.
GenStateInv ==
    /\ (prog = "gen" /\ i = 0 /\ gpc \in {"loop", "update"}) =>
           heap[cur_state] = KnowledgeGraph(<<>>, <<>>)
    /\ GenAtRest =>
           /\ NodesOf(heap[cur_state]) = returned.nodes
           /\ EdgesOf(heap[cur_state]) = returned.edges
           /\ \A n \in NodeUniverse : Count(n, heap[cur_state].nodes) <= 1
           /\ \A e \in EdgeUniverse : Count(e, heap[cur_state].edges) <= 1

\* One iteration: the new running state has the nodes and edges of the old one
\* and of the reply, and no step ever removes one.
GenStepProp ==
    /\ (prog = "gen" /\ gpc = "update" /\ gpc' = "draw") =>
           /\ NodesOf(heap'[cur_state']) =
                  NodesOf(heap[cur_state]) \cup NodesOf(heap[new_updates])
           /\ EdgesOf(heap'[cur_state']) =
                  EdgesOf(heap[cur_state]) \cup EdgesOf(heap[new_updates])
    /\ (prog = "gen" /\ gpc' # "raised") =>
           /\ NodesOf(heap[cur_state]) \subseteq NodesOf(heap'[cur_state'])
           /\ EdgesOf(heap[cur_state]) \subseteq EdgesOf(heap'[cur_state'])

\* C10: in generate_graph the running state starts empty and after each
\* iteration is the merge of the previous running state with the graph the
\* model returned; so it never shrinks, holds everything the model returned in
\* an earlier iteration, and holds no exact-tuple duplicate.
C10_GenAccumulates == []GenStateInv /\ [][GenStepProp]_vars

\* After the second iteration the running state holds a node that only the
\* first reply held and a node that only the second held.
C10_Witness ==
    /\ prog = "gen"
    /\ gpc = "draw"
    /\ i = 1
    /\ \E n \in NodesOf(heap[cur_state]) : n \notin NodesOf(heap[new_updates])
    /\ \E e \in EdgesOf(heap[cur_state]) : e \notin EdgesOf(heap[new_updates])
    /\ NodesOf(heap[new_updates]) # {}

(***************************************************************************)
(* prog = "app": KnowledgeGraphApp                                         *)
(***************************************************************************)
NodeTypes == { "PERSON", "PLACE", "ORGANIZATION", "EVENT", "OTHER" }

EmptyGraph == KnowledgeGraph(<<>>, <<>>)

\* The nodes create_example_graph(text) adds.
ExampleNodeList(text) ==
    << Node(1, text, "PERSON"),
       Node(2, "New York City", "PLACE"),
       Node(3, "Acme Corp", "ORGANIZATION"),
       Node(4, "2024 Tech Conference", "EVENT") >>

\* The edges create_example_graph adds.
ExampleEdgeList ==
    << Edge(1, 2, "lives in"),
       Edge(1, 3, "works at"),
       Edge(1, 4, "attended"),
       Edge(3, 4, "sponsored") >>

\* ExampleTarget with a fault: the example is built on the current graph itself.
ExampleTargetCurrent(cur, fresh) == cur

\* The object create_example_graph fills: its own new KnowledgeGraph(), not the
\* current graph cur.
ExampleTarget(cur, fresh) == fresh

(* The content of the model's answer to update_graph: a JSON document with   *)
(* the keys nodes and edges, or text that is no JSON.                        *)
DocGrown ==
    [json |-> TRUE,
     nodes |-> ExampleNodeList("User") \o << Node(5, "Michael", "PERSON") >>,
     edges |-> ExampleEdgeList \o << Edge(1, 5, "collaborated with") >>]

DocSmall ==
    [json |-> TRUE, nodes |-> << Node(5, "Michael", "PERSON") >>, edges |-> <<>>]

DocBadType ==
    [json |-> TRUE,
     nodes |-> << Node(1, "User", "PERSON"), Node(5, "Rex", "ANIMAL") >>,
     edges |-> << Edge(1, 5, "owns") >>]

DocNotJson == [json |-> FALSE, nodes |-> <<>>, edges |-> <<>>]

Docs == { DocGrown, DocSmall, DocBadType, DocNotJson }

\* What completion(...) does in update_graph: it raises, or it returns a
\* response whose content is doc.
Reply(r, d) == [raised |-> r, doc |-> d]

Replies_update_graph == { Reply(FALSE, d) : d \in Docs } \cup { Reply(TRUE, DocNotJson) }

ValidNode(n) == n.id \in Int /\ n.node_type \in NodeTypes

ValidEdge(e) == e.source \in Int /\ e.target \in Int

\* Whether KnowledgeGraph.model_validate_json accepts the content.
Parses(d) ==
    /\ d.json
    /\ \A k \in 1..Len(d.nodes) : ValidNode(d.nodes[k])
    /\ \A k \in 1..Len(d.edges) : ValidEdge(d.edges[k])

\* KnowledgeGraph.model_validate_json on a content it accepts.
model_validate_json(d) ==
    KnowledgeGraph(
        [k \in 1..Len(d.nodes) |-> Node(d.nodes[k].id, d.nodes[k].name, d.nodes[k].node_type)],
        [k \in 1..Len(d.edges) |->
            Edge(d.edges[k].source, d.edges[k].target, d.edges[k].relationship_decription)])

Outcome(r, e, v) == [raised |-> r, err |-> e, value |-> v]

\* update_graph with a fault: of a content that does not validate, the nodes and
\* edges that do are returned.
update_graph_partial(kg, reply) ==
    IF reply.raised THEN Outcome(TRUE, "CompletionError", EmptyGraph)
    ELSE IF ~reply.doc.json THEN Outcome(TRUE, "ValueError", EmptyGraph)
    ELSE Outcome(FALSE, "",
                 KnowledgeGraph(SelectSeq(reply.doc.nodes, ValidNode),
                                SelectSeq(reply.doc.edges, ValidEdge)))

\* update_graph with a fault: the graph parsed from the answer is merged into kg.
update_graph_merged(kg, reply) ==
    IF reply.raised THEN Outcome(TRUE, "CompletionError", EmptyGraph)
    ELSE IF Parses(reply.doc)
         THEN Outcome(FALSE, "",
                      KnowledgeGraph(kg.nodes \o model_validate_json(reply.doc).nodes,
                                     kg.edges \o model_validate_json(reply.doc).edges))
         ELSE Outcome(TRUE, "ValueError", EmptyGraph)

\* update_graph(input, kg) when completion(...) behaves as reply: the graph
\* returned, or the exception raised.
update_graph(kg, reply) ==
    IF reply.raised THEN Outcome(TRUE, "CompletionError", EmptyGraph)
    ELSE IF Parses(reply.doc) THEN Outcome(FALSE, "", model_validate_json(reply.doc))
         ELSE Outcome(TRUE, "ValueError", EmptyGraph)

(* The streamed answer of the chat completion: its chunks, each with a       *)
(* content delta, a tool-call delta, both or neither, and the tool calls      *)
(* stream_chunk_builder rebuilds from the chunks that carry a tool-call delta.*)
ToolCall(nm, args) == [name |-> nm, arguments |-> args]

ToolCallLists ==
    { << ToolCall("update_knowledge_base", "ARGS_OK") >>,
      << ToolCall("update_knowledge_base", "ARGS_NOT_JSON") >>,
      << ToolCall("update_knowledge_base", "ARGS_WRONG_KEYS") >>,
      << ToolCall("unknown_tool", "ARGS_OK") >>,
      << ToolCall("update_knowledge_base", "ARGS_OK"), ToolCall("unknown_tool", "ARGS_OK") >> }

Response(cs, tcs) == [chunks |-> cs, tool_calls |-> tcs]

TextResponses == { Response(<< "content", "empty" >>, <<>>) }

ToolResponses == { Response(<< "both", "tool" >>, tcs) : tcs \in ToolCallLists }

\* The tool call chat_callback takes from the rebuilt response with a fault:
\* the last one.
tool_call_last(tcs) == tcs[Len(tcs)]

\* tool_call = rebuilt_stream.choices[0].message.tool_calls[0]
tool_call(tcs) == tcs[1]

\* name_to_function_map: the names chat_callback can dispatch.
name_to_function_map == { "update_knowledge_base" }

\* What lines 341-343 do with a tool call whose name the dispatch table
\* lacks or whose arguments are not JSON, with a fault: update_knowledge_base
\* is called on a default text.
DispatchedLenient(tc) ==
    IF tc.name \notin name_to_function_map THEN Outcome(FALSE, "", "fact")
    ELSE IF tc.arguments = "ARGS_NOT_JSON" THEN Outcome(FALSE, "", "fact")
    ELSE IF tc.arguments = "ARGS_WRONG_KEYS" THEN Outcome(TRUE, "TypeError", "")
    ELSE Outcome(FALSE, "", "fact")

\* What lines 341-343 do with the first tool call: the result, or the exception.
Dispatched(tc) ==
    IF tc.name \notin name_to_function_map THEN Outcome(TRUE, "KeyError", "")
    ELSE IF tc.arguments = "ARGS_NOT_JSON" THEN Outcome(TRUE, "JSONDecodeError", "")
    ELSE IF tc.arguments = "ARGS_WRONG_KEYS" THEN Outcome(TRUE, "TypeError", "")
    ELSE Outcome(FALSE, "", "fact")

Message(u, k, t) == [user |-> u, kind |-> k, turn |-> t]

NewTurn ==
    [pc |-> "scheduled", stream |-> <<>>, message |-> 0, chunks |-> 0,
     tool_calls |-> <<>>, result |-> "", err |-> "", kg |-> 0,
     reply |-> Reply(FALSE, DocNotJson), assigned |-> 0,
     steps |-> <<>>, executed |-> <<>>, content |-> "", new_text |-> ""]

TurnIds == 1..Len(turns)

\* The turns that have started and not ended.
Live == { t \in TurnIds : turns[t].pc \notin {"scheduled", "done", "failed"} }

\* The turns that will send a Tool message with respond=True and have not yet.
WillRespond ==
    { t \in TurnIds :
        /\ turns[t].pc \in {"stream", "dispatch", "sendtool"}
        /\ turns[t].tool_calls # <<>>
        /\ ~Dispatched(tool_call(turns[t].tool_calls)).raised }

\* How many more turns the bound leaves room for.
Room == MaxTurns - Len(turns) - Cardinality(WillRespond)

\* The model calls in flight: the streamed chat completions that have not
\* ended and the completion of update_graph that has not returned.
InFlight == { t \in TurnIds : turns[t].pc \in {"stream", "updating"} }

\* The class attribute graph = param.ClassSelector(default=KnowledgeGraph()),
\* before the body of __init__ runs.
InitApp ==
    /\ prog = "app"
    /\ heap = << EmptyGraph >>
    /\ NoMerge
    /\ NoGen
    /\ apc = "new"
    /\ graph = 1
    /\ local = 0
    /\ formed = {1}
    /\ log = <<>>
    /\ turns = <<>>
    /\ running = 0
    /\ rendered = EmptyGraph

\* create_example_graph: graph = KnowledgeGraph(); graph.nodes.extend([...])
CreateExampleNodes ==
    /\ prog = "app"
    /\ apc = "new"
    /\ LET tgt == ExampleTarget(graph, Len(heap) + 1)
           h == IF tgt > Len(heap) THEN Append(heap, EmptyGraph) ELSE heap
       IN  /\ heap' = [h EXCEPT ![tgt].nodes = @ \o ExampleNodeList("User")]
           /\ local' = tgt
    /\ apc' = "nodes"
    /\ UNCHANGED <<prog, mergeVars, genVars, graph, formed, log, turns, running, rendered>>

\* create_example_graph: graph.edges.extend([...]); return graph
CreateExampleEdges ==
    /\ prog = "app"
    /\ apc = "nodes"
    /\ heap' = [heap EXCEPT ![local].edges = @ \o ExampleEdgeList]
    /\ formed' = formed \cup {local}
    /\ apc' = "edges"
    /\ UNCHANGED <<prog, mergeVars, genVars, graph, local, log, turns, running, rendered>>

\* __init__: self.graph = self.create_example_graph("User"), then the widgets.
AssignExample ==
    /\ prog = "app"
    /\ apc = "edges"
    /\ graph' = local
    /\ local' = 0
    /\ apc' = "ready"
    /\ UNCHANGED <<prog, heap, mergeVars, genVars, formed, log, turns, running, rendered>>

\* _update_svg: the current graph is drawn.
Render ==
    /\ prog = "app"
    /\ apc = "ready"
    /\ running = 0
    /\ rendered # heap[graph]
    /\ rendered' = heap[graph]
    /\ UNCHANGED <<prog, heap, mergeVars, genVars, apc, graph, local, formed, log, turns, running>>

\* button: a click sends the example text as a User message; send(...) has
\* respond=True by default, which schedules a call of chat_callback.
LoadExample ==
    /\ prog = "app"
    /\ apc = "ready"
    /\ running = 0
    /\ Room >= 1
    /\ log' = Append(log, Message("User", "text", 0))
    /\ turns' = Append(turns, NewTurn)
    /\ UNCHANGED <<prog, heap, mergeVars, genVars, apc, graph, local, formed, running, rendered>>

\* chat_callback up to its first suspension: the transcript is serialized and
\* the streamed completion is requested.
Start(t) ==
    /\ prog = "app"
    /\ running = 0
    /\ turns[t].pc = "scheduled"
    /\ \E r \in TextResponses \cup ToolResponses :
         /\ (r.tool_calls # <<>> /\ ~Dispatched(tool_call(r.tool_calls)).raised) => Room >= 1
         /\ turns' = [turns EXCEPT ![t].pc = "stream",
                                   ![t].stream = r.chunks,
                                   ![t].tool_calls = r.tool_calls]
    /\ UNCHANGED <<prog, heap, mergeVars, genVars, apc, graph, local, formed, log, running, rendered>>

\* One round of the async for loop: a content delta is added to message and
\* yielded (the first yield shows a Bot message), a chunk with a tool-call
\* delta is kept in chunks.
Chunk(t) ==
    /\ prog = "app"
    /\ running = 0
    /\ turns[t].pc = "stream"
    /\ turns[t].stream # <<>>
    /\ LET c == Head(turns[t].stream)
           hasContent == c \in {"content", "both"}
           hasTool == c \in {"tool", "both"}
       IN  /\ turns' = [turns EXCEPT
                  ![t].stream = Tail(@),
                  ![t].message = IF hasContent THEN @ + 1 ELSE @,
                  ![t].chunks = IF hasTool THEN @ + 1 ELSE @]
           /\ log' = IF hasContent /\ turns[t].message = 0
                     THEN Append(log, Message("Bot", "text", t))
                     ELSE log
    /\ UNCHANGED <<prog, heap, mergeVars, genVars, apc, graph, local, formed, running, rendered>>

\* The stream breaks: the exception leaves chat_callback.
StreamError(t) ==
    /\ prog = "app"
    /\ running = 0
    /\ turns[t].pc = "stream"
    /\ turns[t].stream # <<>>
    /\ turns' = [turns EXCEPT ![t].pc = "failed", ![t].err = "TransportError",
                              ![t].stream = <<>>]
    /\ UNCHANGED <<prog, heap, mergeVars, genVars, apc, graph, local, formed, log, running, rendered>>

\* The stream has ended and chunks is empty: chat_callback ends.
StreamEndNoTool(t) ==
    /\ prog = "app"
    /\ running = 0
    /\ turns[t].pc = "stream"
    /\ turns[t].stream = <<>>
    /\ turns[t].chunks = 0
    /\ turns' = [turns EXCEPT ![t].pc = "done"]
    /\ UNCHANGED <<prog, heap, mergeVars, genVars, apc, graph, local, formed, log, running, rendered>>

\* The stream has ended with chunks: the tool calls are rebuilt and recorded as
\* a hidden Bot message (respond=False). From here to its end the turn does
\* not suspend.
StreamEndTool(t) ==
    /\ prog = "app"
    /\ running = 0
    /\ turns[t].pc = "stream"
    /\ turns[t].stream = <<>>
    /\ turns[t].chunks > 0
    /\ running' = t
    /\ log' = Append(log, Message("Bot", "tool_calls", t))
    /\ turns' = [turns EXCEPT ![t].pc = "dispatch",
                              ![t].steps = @ \o << "chunks_consumed", "tool_calls_recorded" >>]
    /\ UNCHANGED <<prog, heap, mergeVars, genVars, apc, graph, local, formed, rendered>>

\* The first tool call is looked up, its arguments are loaded, it is called.
Dispatch(t) ==
    /\ prog = "app"
    /\ running = t
    /\ turns[t].pc = "dispatch"
    /\ LET tc == tool_call(turns[t].tool_calls)
           d == Dispatched(tc)
       IN  IF d.raised
           THEN /\ turns' = [turns EXCEPT ![t].pc = "failed", ![t].err = d.err]
                /\ running' = 0
           ELSE /\ turns' = [turns EXCEPT ![t].pc = "sendtool",
                                          ![t].result = d.value,
                                          ![t].executed = Append(@, tc),
                                          ![t].steps = Append(@, "tool_executed")]
                /\ running' = t
    /\ UNCHANGED <<prog, heap, mergeVars, genVars, apc, graph, local, formed, log, rendered>>

\* The result is recorded as a hidden Tool message with respond=True, which
\* schedules another call of chat_callback.
SendTool(t) ==
    /\ prog = "app"
    /\ running = t
    /\ turns[t].pc = "sendtool"
    /\ log' = Append(log, Message("Tool", "tool_result", t))
    /\ turns' = Append([turns EXCEPT ![t].pc = "callupdate",
                                     ![t].content = turns[t].result,
                                     ![t].steps = Append(@, "tool_result_recorded")],
                       NewTurn)
    /\ UNCHANGED <<prog, heap, mergeVars, genVars, apc, graph, local, formed, running, rendered>>

\* update_graph(result, self.graph) is called: its completion is requested
\* and the turn waits for it without suspending.
CallUpdate(t) ==
    /\ prog = "app"
    /\ running = t
    /\ turns[t].pc = "callupdate"
    /\ \E r \in Replies_update_graph :
         turns' = [turns EXCEPT ![t].pc = "updating", ![t].kg = graph, ![t].reply = r,
                                   ![t].new_text = turns[t].result,
                                   ![t].steps = Append(@, "update_graph_called")]
    /\ UNCHANGED <<prog, heap, mergeVars, genVars, apc, graph, local, formed, log, running, rendered>>

\* update_graph returns and self.graph is assigned, or it raises and the
\* assignment does not happen.
UpdateReturn(t) ==
    /\ prog = "app"
    /\ running = t
    /\ turns[t].pc = "updating"
    /\ LET o == update_graph(heap[turns[t].kg], turns[t].reply)
       IN  IF o.raised
           THEN /\ turns' = [turns EXCEPT ![t].pc = "failed", ![t].err = o.err]
                /\ UNCHANGED <<heap, graph, formed>>
           ELSE /\ heap' = Append(heap, o.value)
                /\ formed' = formed \cup {Len(heap) + 1}
                /\ graph' = Len(heap) + 1
                /\ turns' = [turns EXCEPT ![t].pc = "done", ![t].assigned = @ + 1,
                                          ![t].steps = Append(@, "graph_replaced")]
    /\ running' = 0
    /\ UNCHANGED <<prog, mergeVars, genVars, apc, local, log, rendered>>

NextApp ==
    \/ CreateExampleNodes
    \/ CreateExampleEdges
    \/ AssignExample
    \/ Render
    \/ LoadExample
    \/ \E t \in TurnIds : Start(t)
    \/ \E t \in TurnIds : Chunk(t)
    \/ \E t \in TurnIds : StreamError(t)
    \/ \E t \in TurnIds : StreamEndNoTool(t)
    \/ \E t \in TurnIds : StreamEndTool(t)
    \/ \E t \in TurnIds : Dispatch(t)
    \/ \E t \in TurnIds : SendTool(t)
    \/ \E t \in TurnIds : CallUpdate(t)
    \/ \E t \in TurnIds : UpdateReturn(t)

SpecApp == InitApp /\ [][NextApp]_vars

(***************************************************************************)
(* The update call and the application together                            *)
(***************************************************************************)
InitAll == InitMerge \/ InitApp

NextAll == NextMerge \/ NextApp

SpecAll == InitAll /\ [][NextAll]_vars

(***************************************************************************)
(* Claims about the chat application                                       *)
(***************************************************************************)
ExampleGraph == KnowledgeGraph(ExampleNodeList("User"), ExampleEdgeList)

\* The turn t waits for an answer to update_graph that arrives and does not
\* validate as a KnowledgeGraph.
AwaitsUnparseable(t) ==
    /\ turns[t].pc = "updating"
    /\ ~turns[t].reply.raised
    /\ ~Parses(turns[t].reply.doc)

\* C6: when the answer to update_graph does not parse into the KnowledgeGraph
\* shape, update_graph raises its ValueError and the turn ends with the
\* current graph being the very graph it gave to update_graph, unchanged: the
\* turn assigns nothing, not even the part of the answer that is valid. And a
\* turn that does assign assigns the whole graph parsed from a valid answer.
C6_FailedUpdateKeepsGraph ==
    [][ \A t \in TurnIds :
          /\ AwaitsUnparseable(t) =>
                /\ turns'[t].pc = "failed"
                /\ turns'[t].err = "ValueError"
                /\ turns'[t].assigned = 0
                /\ graph' = graph
                /\ graph' = turns[t].kg
                /\ heap'[graph'] = heap[graph]
          /\ (turns[t].pc = "updating" /\ graph' # graph) =>
                /\ Parses(turns[t].reply.doc)
                /\ heap'[graph'] = model_validate_json(turns[t].reply.doc) ]_vars

\* A turn has failed on an answer that is JSON with one valid and one invalid
\* node, and the current graph is still the example graph.
C6_Witness ==
    /\ prog = "app"
    /\ \E t \in TurnIds :
         /\ turns[t].pc = "failed"
         /\ turns[t].err = "ValueError"
         /\ turns[t].reply = Reply(FALSE, DocBadType)
    /\ heap[graph] = ExampleGraph

\* C7: chat turns are strictly sequential: at most one model call (a streamed
\* chat completion or the completion of update_graph) is in flight, at most
\* one turn has started and not ended, and only the turn that runs assigns the
\* graph.
C7_StrictlySequential ==
    prog = "app" =>
        /\ Cardinality(InFlight) <= 1
        /\ Cardinality(Live) <= 1
        /\ \A t \in TurnIds :
             turns[t].pc \in {"dispatch", "sendtool", "callupdate", "updating"} => running = t

\* C8 (state part): the current graph, and the graph a reader drew, is always
\* an object whose construction has ended.
C8_StateInv ==
    prog = "app" =>
        /\ graph \in formed
        /\ \E o \in formed : rendered = heap[o]

\* C8 (step part): update returns a new object and leaves its operands as they
\* were; an object whose construction has ended never changes; the current
\* graph changes only by becoming another such object.
C8_StepProp ==
    /\ (prog = "merge" /\ ret = 0 /\ ret' # 0) =>
           /\ heap'[self] = heap[self]
           /\ heap'[other] = heap[other]
           /\ ret' \notin {self, other}
    /\ prog = "app" =>
           /\ \A o \in formed : o \in formed' /\ heap'[o] = heap[o]
           /\ graph' # graph => graph' \in formed'

\* C8: the current graph is replaced, never changed in place.
C8_ReplacedNotMutated == []C8_StateInv /\ [][C8_StepProp]_vars

\* A turn has replaced the example graph by a new object while the reader
\* still shows the example graph, which is unchanged.
C8_Witness ==
    /\ prog = "app"
    /\ \E t \in TurnIds : turns[t].assigned = 1
    /\ graph \notin {1, 2}
    /\ rendered = ExampleGraph
    /\ heap[2] = ExampleGraph
    /\ heap[graph] # ExampleGraph

\* C9: when the tool call and the extraction succeed, the current graph after
\* the turn is exactly the graph parsed from the answer: nothing of the
\* previous graph that the answer omits remains.
C9_FullReplacement ==
    [][ \A t \in TurnIds :
          (turns[t].pc = "updating" /\ turns'[t].pc = "done") =>
              LET parsed == model_validate_json(turns[t].reply.doc)
              IN  /\ heap'[graph'] = parsed
                  /\ \A n \in NodesOf(heap[graph]) \ NodesOf(parsed) :
                         n \notin NodesOf(heap'[graph'])
                  /\ \A e \in EdgesOf(heap[graph]) \ EdgesOf(parsed) :
                         e \notin EdgesOf(heap'[graph']) ]_vars

\* A turn has ended on an answer that holds one node only, and none of the
\* example graph's nodes or edges is in the current graph.
C9_Witness ==
    /\ prog = "app"
    /\ \E t \in TurnIds :
         /\ turns[t].pc = "done"
         /\ turns[t].assigned = 1
         /\ turns[t].reply = Reply(FALSE, DocSmall)
         /\ heap[turns[t].kg] = ExampleGraph
    /\ NodesOf(heap[graph]) \cap NodesOf(ExampleGraph) = {}
    /\ EdgesOf(heap[graph]) = {}

(* The steps of a turn that has received a tool call, in the order of        *)
(* chat_callback's text after the async for loop.                            *)
ToolTurnSteps ==
    << "chunks_consumed", "tool_calls_recorded", "tool_executed",
       "tool_result_recorded", "update_graph_called", "graph_replaced" >>

\* Where in the transcript the message m is, 0 when it is not there.
PlaceInLog(m) ==
    IF m \in Range(log) THEN CHOOSE k \in 1..Len(log) : log[k] = m ELSE 0

\* C11 (state part): what a turn has done so far is a prefix of ToolTurnSteps,
\* so the steps happen in that order and each at most once; a turn that has
\* done any has consumed its whole stream and kept a tool-call chunk; the
\* tool-call message and the Tool message are in the transcript once each and
\* in that order; the one tool call executed is the first of the rebuilt
\* response, and a turn fails there only if that first call fails, whatever
\* the later calls are; the Tool message and update_graph receive the tool's
\* result; and
\* the turn has replaced the graph once if it has done all the steps, never
\* otherwise.
C11_StateInv ==
    prog = "app" =>
        \A t \in TurnIds :
            LET tn == turns[t]
                n == Len(tn.steps)
                botMsg == Message("Bot", "tool_calls", t)
                toolMsg == Message("Tool", "tool_result", t)
            IN  /\ n <= Len(ToolTurnSteps)
                /\ tn.steps = SubSeq(ToolTurnSteps, 1, n)
                /\ n >= 1 => /\ tn.stream = <<>>
                             /\ tn.chunks >= 1
                             /\ tn.tool_calls # <<>>
                /\ Count(botMsg, log) = (IF n >= 2 THEN 1 ELSE 0)
                /\ Count(toolMsg, log) = (IF n >= 4 THEN 1 ELSE 0)
                /\ n >= 4 => PlaceInLog(botMsg) < PlaceInLog(toolMsg)
                /\ tn.executed = (IF n >= 3 THEN << tn.tool_calls[1] >> ELSE <<>>)
                /\ n >= 3 => tn.result = Dispatched(tn.tool_calls[1]).value
                /\ (n = 2 /\ tn.pc = "failed") =>
                       /\ Dispatched(tn.tool_calls[1]).raised
                       /\ tn.err = Dispatched(tn.tool_calls[1]).err
                /\ n >= 4 => tn.content = tn.result
                /\ n >= 5 => tn.new_text = tn.content
                /\ tn.assigned = (IF n = Len(ToolTurnSteps) THEN 1 ELSE 0)

\* C11 (step part): once the example graph is in place the current graph is
\* replaced only by the last step of a turn that has done all the others, and
\* by the graph update_graph returned for the graph that was current.
C11_StepProp ==
    (prog = "app" /\ apc = "ready" /\ graph' # graph) =>
        \E t \in TurnIds :
            /\ turns[t].steps = SubSeq(ToolTurnSteps, 1, Len(ToolTurnSteps) - 1)
            /\ turns'[t].steps = ToolTurnSteps
            /\ \A u \in TurnIds \ {t} : turns'[u] = turns[u]
            /\ heap'[graph'] = update_graph(heap[turns[t].kg], turns[t].reply).value

\* C11: a turn that receives a tool call consumes the stream, records the
\* tool-call message, executes the first tool call, records its result as a
\* Tool message, passes that result to update_graph and only then replaces the
\* current graph, each at most once and in this order.
C11_ToolTurnInOrder == []C11_StateInv /\ [][C11_StepProp]_vars

\* A turn whose response carried two tool calls, the second unknown to the
\* dispatch table, has done every step, executed the first call only and
\* replaced the example graph.
C11_Witness ==
    /\ prog = "app"
    /\ \E t \in TurnIds :
         /\ turns[t].pc = "done"
         /\ turns[t].steps = ToolTurnSteps
         /\ Len(turns[t].tool_calls) = 2
         /\ turns[t].executed = << ToolCall("update_knowledge_base", "ARGS_OK") >>
         /\ turns[t].new_text = "fact"
         /\ turns[t].assigned = 1
         /\ heap[turns[t].kg] = ExampleGraph
    /\ heap[graph] # ExampleGraph

\* The turn tn has started and its response carried no tool call.
NoToolCall(tn) ==
    /\ tn.pc # "scheduled"
    /\ tn.tool_calls = <<>>

\* The first tool call of the turn names a function the dispatch table lacks,
\* or carries arguments that are not JSON.
BadToolCall(tn) ==
    /\ tn.tool_calls # <<>>
    /\ \/ tn.tool_calls[1].name \notin name_to_function_map
       \/ tn.tool_calls[1].arguments = "ARGS_NOT_JSON"

\* C12 (state part): a turn without a tool call, or whose tool call names an
\* unknown function or carries arguments that are not JSON, never calls
\* update_graph and never assigns the graph; the turn with the bad tool call
\* never ends well: past its stream it fails with the KeyError of the lookup
\* or the error of json.loads, before executing the tool.
C12_StateInv ==
    prog = "app" =>
        \A t \in TurnIds :
            LET tn == turns[t]
            IN  (NoToolCall(tn) \/ BadToolCall(tn)) =>
                    /\ "update_graph_called" \notin Range(tn.steps)
                    /\ tn.pc \notin {"sendtool", "callupdate", "updating"}
                    /\ tn.kg = 0
                    /\ tn.new_text = ""
                    /\ tn.executed = <<>>
                    /\ tn.assigned = 0
                    /\ NoToolCall(tn) => tn.steps = <<>>
                    /\ BadToolCall(tn) =>
                           /\ tn.pc # "done"
                           /\ (tn.pc = "failed" /\ tn.steps # <<>>) =>
                                  tn.err = (IF tn.tool_calls[1].name \notin name_to_function_map
                                            THEN "KeyError" ELSE "JSONDecodeError")

\* C12 (step part): no step of such a turn changes which graph is current or
\* what that graph holds.
C12_StepProp ==
    prog = "app" =>
        \A t \in TurnIds :
            (turns'[t] # turns[t] /\ (NoToolCall(turns'[t]) \/ BadToolCall(turns'[t]))) =>
                /\ graph' = graph
                /\ heap'[graph'] = heap[graph]

\* C12: a turn whose response carries no tool call, or a tool call that names
\* an unknown function or has arguments that are not JSON, makes no
\* update_graph call and leaves the current graph as it is; in the latter two
\* cases the turn fails before update_graph is reached.
C12_NoToolNoUpdate == []C12_StateInv /\ [][C12_StepProp]_vars

\* One turn has ended after a text answer without a tool call, another has
\* recorded its tool-call message and failed on the unknown function name, and
\* the current graph is still the example graph.
C12_Witness ==
    /\ prog = "app"
    /\ \E t \in TurnIds :
         /\ turns[t].pc = "done"
         /\ turns[t].tool_calls = <<>>
         /\ turns[t].message >= 1
    /\ \E u \in TurnIds :
         /\ turns[u].pc = "failed"
         /\ turns[u].err = "KeyError"
         /\ turns[u].tool_calls = << ToolCall("unknown_tool", "ARGS_OK") >>
         /\ Message("Bot", "tool_calls", u) \in Range(log)
    /\ heap[graph] = ExampleGraph

====
